---- MODULE Spec2Model ----
(***************************************************************************)
(* Model of src/src/mod.ts: the Result algebra (success, failure, from,    *)
(* inspect, invert, unwrap).  The file holds two implementations of the    *)
(* same surface (lines 1-90 and lines 92-150); both are modelled, suffix 1 *)
(* and 2, and every call is made on both.                                  *)
(*                                                                         *)
(* JavaScript values are records tagged by "type"; a Result is the record  *)
(* the code builds, with the field names the code gives it.  An argument   *)
(* list is a sequence: a parameter past its end reads as undefined, and a  *)
(* default initialiser replaces undefined (omitted or passed explicitly).  *)
(***************************************************************************)
EXTENDS Integers, Sequences, FiniteSets, TLC

\* Bounds of the model.
MaxNum == 1      \* number payloads are 0..MaxNum
MaxOps == 3      \* calls recorded since the current Result was introduced

----------------------------------------------------------------------------
\* Values of the host language.

Undefined == [type |-> "undefined"]
Null == [type |-> "null"]
Num(n) == [type |-> "number", n |-> n]
Fn(name) == [type |-> "function", name |-> name]
TypeError == [type |-> "error", name |-> "TypeError"]
CallbackError == [type |-> "error", name |-> "CallbackError"]

\* Payloads (the `unknown` parameters of success / failure / from).
Payloads == {Undefined, Null} \cup {Num(n) : n \in 0..MaxNum}

\* The callbacks handed to unwrap: e => e, e => 0, e => { throw ... }.
Callbacks == {Fn("identity"), Fn("constant"), Fn("throwing")}

\* enum DataKey
DataKey == [Success |-> "value", Failure |-> "error"]

\* Either<T, E>: every record of the tagged-union shape, whoever built it.
Either ==
    { [ok |-> TRUE, value |-> v] : v \in Payloads } \cup
    { [ok |-> FALSE, error |-> e] : e \in Payloads }

----------------------------------------------------------------------------
\* Host-language mechanics the code relies on.

\* Reading parameter i of a call: undefined when the argument is omitted.
Param(args, i) == IF i <= Len(args) THEN args[i] ELSE Undefined

\* A default initialiser `p = d`: applies when the parameter is undefined.
DefaultParam(a, d) == IF a = Undefined THEN d ELSE a

\* Property read: undefined when the record has no such field.
Get(r, k) == IF k \in DOMAIN r THEN r[k] ELSE Undefined

\* Completion of a call: how it ended, with what, who raised, and the
\* arguments with which the caller's callback was invoked during the call.
Return(v, calls) == [kind |-> "return", val |-> v, raisedBy |-> "none", calls |-> calls]
Throw(v, who, calls) == [kind |-> "throw", val |-> v, raisedBy |-> who, calls |-> calls]

\* The body of a callback applied to e.
Body(f, e) ==
    CASE f.name = "identity" -> Return(e, <<e>>)
      [] f.name = "constant" -> Return(Num(0), <<e>>)
      [] OTHER -> Throw(CallbackError, "callback", <<e>>)

\* f(e): calling something that is not a function raises a TypeError.
Call(f, e) == IF f.type = "function" THEN Body(f, e) ELSE Throw(TypeError, "library", <<>>)

\* f?.(e): undefined, without a call, when f is undefined or null.
OptionalCall(f, e) == IF f \in {Undefined, Null} THEN Return(Undefined, <<>>) ELSE Call(f, e)

----------------------------------------------------------------------------
\* First implementation (lines 1-90).

success1(args) ==
    LET value == DefaultParam(Param(args, 1), Null)
    IN ("ok" :> TRUE) @@ (DataKey.Success :> value)

failure1(args) ==
    LET error == DefaultParam(Param(args, 1), Null)
    IN ("ok" :> FALSE) @@ (DataKey.Failure :> error)

\* from with its branches exchanged.
from1_swapped(test, args) ==
    LET data == DefaultParam(Param(args, 1), Null)
    IN IF test THEN failure1(<<data>>) ELSE success1(<<data>>)

from1(test, args) ==
    LET data == DefaultParam(Param(args, 1), Null)
    IN IF test THEN success1(<<data>>) ELSE failure1(<<data>>)

inspect1(result) ==
    IF Get(result, "ok") THEN Get(result, DataKey.Success) ELSE Get(result, DataKey.Failure)

\* invert that rebuilds the same variant instead of the opposite one.
invert1_noswap(result) ==
    IF Get(result, "ok") THEN success1(<<Get(result, DataKey.Success)>>)
                         ELSE failure1(<<Get(result, DataKey.Failure)>>)

invert1(result) ==
    IF Get(result, "ok") THEN failure1(<<Get(result, DataKey.Success)>>)
                         ELSE success1(<<Get(result, DataKey.Failure)>>)

\* unwrap that calls the callback without the optional-call guard.
unwrap1_plaincall(result, args) ==
    LET callback == Param(args, 1)
    IN IF Get(result, "ok") THEN Return(Get(result, DataKey.Success), <<>>)
                            ELSE Call(callback, Get(result, DataKey.Failure))

unwrap1(result, args) ==
    LET callback == Param(args, 1)
    IN IF Get(result, "ok") THEN Return(Get(result, DataKey.Success), <<>>)
                            ELSE OptionalCall(callback, Get(result, DataKey.Failure))

----------------------------------------------------------------------------
\* Second implementation (lines 92-150).

\* success without the default initialiser on its parameter.
success2_nodefault(args) ==
    LET value == Param(args, 1)
    IN [ok |-> TRUE, value |-> value]

success2(args) ==
    LET value == DefaultParam(Param(args, 1), Null)
    IN [ok |-> TRUE, value |-> value]

failure2(args) ==
    LET error == DefaultParam(Param(args, 1), Null)
    IN [ok |-> FALSE, error |-> error]

from2(test, args) ==
    LET data == DefaultParam(Param(args, 1), Undefined)
    IN IF test THEN success2(<<data>>) ELSE failure2(<<data>>)

\* inspect that reads the value field whatever the tag.
inspect2_valueonly(result) == Get(result, "value")

inspect2(result) ==
    IF Get(result, "ok") THEN Get(result, "value") ELSE Get(result, "error")

\* invert that flips the tag and adds the new field, keeping the old one.
invert2_keepfield(result) ==
    IF Get(result, "ok") THEN ("ok" :> FALSE) @@ ("error" :> Get(result, "value")) @@ result
                         ELSE ("ok" :> TRUE) @@ ("value" :> Get(result, "error")) @@ result

invert2(result) ==
    IF Get(result, "ok") THEN failure2(<<Get(result, "value")>>)
                         ELSE success2(<<Get(result, "error")>>)

unwrap2(result, args) ==
    LET cb == Param(args, 1)
    IN IF Get(result, "ok") THEN Return(Get(result, "value"), <<>>)
                            ELSE Call(cb, Get(result, "error"))

----------------------------------------------------------------------------
\* The two implementations side by side.

Impls == {1, 2}

success(i, args) == IF i = 1 THEN success1(args) ELSE success2(args)
failure(i, args) == IF i = 1 THEN failure1(args) ELSE failure2(args)
from(i, test, args) == IF i = 1 THEN from1(test, args) ELSE from2(test, args)
inspect(i, result) == IF i = 1 THEN inspect1(result) ELSE inspect2(result)
invert(i, result) == IF i = 1 THEN invert1(result) ELSE invert2(result)
unwrap(i, result, args) == IF i = 1 THEN unwrap1(result, args) ELSE unwrap2(result, args)

\* Argument lists a caller can write for an optional payload parameter.
PayloadArgs == {<<>>} \cup { <<x>> : x \in Payloads }

\* Argument lists a caller can write for unwrap's callback parameter.
CallbackArgs == {<<>>, <<Undefined>>} \cup { <<f>> : f \in Callbacks }

----------------------------------------------------------------------------
\* State of a caller's session with the library.

VARIABLES
    res,    \* res[i]: the Result the caller holds under implementation i
    out,    \* out[i]: completion of the last call under implementation i
    hist    \* the calls made since the held Result was introduced

vars == <<res, out, hist>>

Entry(op, test, args) == [op |-> op, test |-> test, args |-> args]

NoCall == [kind |-> "none", val |-> Undefined, raisedBy |-> "none", calls |-> <<>>]

\* The caller starts with any well-formed Result, e.g. a record literal.
Init ==
    \E r \in Either :
        /\ res = [i \in Impls |-> r]
        /\ out = [i \in Impls |-> NoCall]
        /\ hist = <<Entry("given", FALSE, <<r>>)>>

CallSuccess(args) ==
    /\ res' = [i \in Impls |-> success(i, args)]
    /\ out' = [i \in Impls |-> Return(success(i, args), <<>>)]
    /\ hist' = <<Entry("success", FALSE, args)>>

CallFailure(args) ==
    /\ res' = [i \in Impls |-> failure(i, args)]
    /\ out' = [i \in Impls |-> Return(failure(i, args), <<>>)]
    /\ hist' = <<Entry("failure", FALSE, args)>>

CallFrom(test, args) ==
    /\ res' = [i \in Impls |-> from(i, test, args)]
    /\ out' = [i \in Impls |-> Return(from(i, test, args), <<>>)]
    /\ hist' = <<Entry("from", test, args)>>

CallInspect ==
    /\ Len(hist) < MaxOps
    /\ out' = [i \in Impls |-> Return(inspect(i, res[i]), <<>>)]
    /\ hist' = Append(hist, Entry("inspect", FALSE, <<>>))
    /\ UNCHANGED res

CallInvert ==
    /\ Len(hist) < MaxOps
    /\ res' = [i \in Impls |-> invert(i, res[i])]
    /\ out' = [i \in Impls |-> Return(invert(i, res[i]), <<>>)]
    /\ hist' = Append(hist, Entry("invert", FALSE, <<>>))

CallUnwrap(args) ==
    /\ Len(hist) < MaxOps
    /\ out' = [i \in Impls |-> unwrap(i, res[i], args)]
    /\ hist' = Append(hist, Entry("unwrap", FALSE, args))
    /\ UNCHANGED res

Next ==
    \/ \E args \in PayloadArgs : CallSuccess(args)
    \/ \E args \in PayloadArgs : CallFailure(args)
    \/ \E test \in BOOLEAN, args \in PayloadArgs : CallFrom(test, args)
    \/ CallInspect
    \/ CallInvert
    \/ \E args \in CallbackArgs : CallUnwrap(args)

Spec == Init /\ [][Next]_vars

TypeOK ==
    /\ \A i \in Impls : res[i] \in Either
    /\ Len(hist) \in 1..MaxOps

----------------------------------------------------------------------------
\* Shorthands for the recorded calls.

Last == hist[Len(hist)]

\* hist is exactly: a constructor `op` called with one explicit argument,
\* followed by the call `then`.
OneArgThen(op, then) ==
    /\ Len(hist) = 2
    /\ hist[1].op = op
    /\ Len(hist[1].args) = 1
    /\ hist[2].op = then

\* The last call was unwrap and the caller supplied a function as callback.
CallbackSupplied == Last.op = "unwrap" /\ Param(Last.args, 1) \in Callbacks

\* The last call was unwrap on a Failure with no callback supplied.
UnwrapFailureNoCallback ==
    /\ Last.op = "unwrap"
    /\ Param(Last.args, 1) \notin Callbacks
    /\ \A i \in Impls : ~Get(res[i], "ok")

----------------------------------------------------------------------------
\* C1 - Payload fidelity: for every payload x, undefined and null included,
\* inspect(success(x)) is x and inspect(failure(x)) is x.
PayloadFidelity ==
    \A i \in Impls :
        (OneArgThen("success", "inspect") \/ OneArgThen("failure", "inspect"))
            => out[i].val = hist[1].args[1]

\* C2 - Inversion involution: for every well-formed Result r, built by the
\* constructors or not, invert(invert(r)) is structurally equal to r.
InversionInvolution ==
    ( /\ Len(hist) = 3
      /\ hist[1].op = "given"
      /\ hist[2].op = "invert"
      /\ hist[3].op = "invert" )
        => \A i \in Impls : res[i] = hist[1].args[1]

\* C3 - from correctness: from(b, x) is structurally equal to success(x) when
\* b is true and to failure(x) when b is false; from(true).ok is true and
\* from(false).ok is false.
FromCorrect ==
    Last.op = "from" =>
        \A i \in Impls :
            /\ Len(Last.args) = 1 =>
                 res[i] = IF Last.test THEN success(i, Last.args) ELSE failure(i, Last.args)
            /\ Get(res[i], "ok") = Last.test
            /\ out[i] = Return(res[i], <<>>)

FromCorrectWitness ==
    /\ Last.op = "from"
    /\ Last.args = <<Num(1)>>
    /\ ~Last.test
    /\ \A i \in Impls : res[i] = [ok |-> FALSE, error |-> Num(1)]

\* C4 - Unwrap fallback invocation: for every error payload e and callback
\* f, unwrap(failure(e), f) returns exactly f(e), and f is invoked exactly
\* once, with e as its argument.
UnwrapFallback ==
    (OneArgThen("failure", "unwrap") /\ CallbackSupplied)
        => \A i \in Impls : out[i] = Body(Last.args[1], hist[1].args[1])

\* C5 - Unwrap pass-through: for every payload x and callback f,
\* unwrap(success(x), f) returns x and f is never invoked.
UnwrapPassThrough ==
    (OneArgThen("success", "unwrap") /\ CallbackSupplied)
        => \A i \in Impls : out[i] = Return(hist[1].args[1], <<>>)

\* C6 - Record shape: every record returned by success, failure, from or
\* invert, after any sequence of calls, has exactly the boolean tag ok and
\* one payload field, named value when ok is true and error when ok is
\* false, never both; success(x).ok is true and failure(x).ok is false.
RecordShape ==
    Last.op \in {"success", "failure", "from", "invert"} =>
        \A i \in Impls :
            /\ out[i].kind = "return"
            /\ out[i].val = res[i]
            /\ Get(res[i], "ok") \in BOOLEAN
            /\ DOMAIN res[i] = IF Get(res[i], "ok") THEN {"ok", "value"} ELSE {"ok", "error"}
            /\ Last.op = "success" => Get(res[i], "ok") = TRUE
            /\ Last.op = "failure" => Get(res[i], "ok") = FALSE

RecordShapeWitness ==
    /\ Len(hist) = 3
    /\ hist[1].op = "from"
    /\ hist[2].op = "invert"
    /\ hist[3].op = "invert"
    /\ \A i \in Impls : DOMAIN res[i] = {"ok", "error"}

\* C7 - Inversion swap: invert(success(x)) is structurally equal to
\* failure(x) and invert(failure(x)) is structurally equal to success(x).
InversionSwap ==
    \A i \in Impls :
        /\ OneArgThen("success", "invert") => res[i] = failure(i, hist[1].args)
        /\ OneArgThen("failure", "invert") => res[i] = success(i, hist[1].args)

InversionSwapWitness ==
    /\ OneArgThen("success", "invert")
    /\ hist[1].args = <<Undefined>>
    /\ \A i \in Impls : res[i] = [ok |-> FALSE, error |-> Null]

\* C8 - Consistent defaulting: success() and failure() carry the default
\* payload null, and from(test) with the payload omitted carries the same
\* default for both values of test: from(true) equals success() and
\* from(false) equals failure().
ConsistentDefault ==
    (Len(hist) = 1 /\ Last.args = <<>>) =>
        \A i \in Impls :
            /\ Last.op = "success" => res[i] = [ok |-> TRUE, value |-> Null]
            /\ Last.op = "failure" => res[i] = [ok |-> FALSE, error |-> Null]
            /\ (Last.op = "from" /\ Last.test) => res[i] = [ok |-> TRUE, value |-> Null]
            /\ (Last.op = "from" /\ ~Last.test) => res[i] = [ok |-> FALSE, error |-> Null]

ConsistentDefaultWitness ==
    /\ Last.op = "from"
    /\ Last.args = <<>>
    /\ Last.test
    /\ \A i \in Impls : Get(res[i], "value") = Null

\* C9 - The library does not throw: no call raises an error of its own; the
\* only error leaving unwrap is one raised by the caller's callback.  This
\* includes unwrap applied to a Failure when no callback is supplied.
NeverThrows ==
    \A i \in Impls : out[i].kind = "throw" => out[i].raisedBy = "callback"

\* C9 as amended: success, failure, from, inspect and invert never raise, and
\* neither does unwrap when the Result is a Success or a callback is
\* supplied, apart from an error raised by the callback itself.  unwrap on a
\* Failure with no callback returns undefined without raising in the first
\* implementation and raises a TypeError in the second.
NeverThrowsWithCallback ==
    /\ ~UnwrapFailureNoCallback =>
         \A i \in Impls :
             out[i].kind = "throw" =>
                 /\ out[i].raisedBy = "callback"
                 /\ CallbackSupplied
                 /\ Last.args[1] = Fn("throwing")
                 /\ out[i].val = CallbackError
    /\ UnwrapFailureNoCallback =>
         /\ out[1] = Return(Undefined, <<>>)
         /\ out[2] = Throw(TypeError, "library", <<>>)

NeverThrowsWitness ==
    /\ UnwrapFailureNoCallback
    /\ Last.args = <<>>
    /\ out[1].kind = "return"
    /\ out[2].kind = "throw"

\* C10 - The two implementations are observationally equivalent: success,
\* failure, from, inspect and invert on every input, optional arguments
\* omitted or not, and unwrap with a callback supplied, return structurally
\* equal results and invoke the callback equally often with the same argument.
Equivalent ==
    /\ res[1] = res[2]
    /\ (Last.op # "unwrap" \/ CallbackSupplied) => out[1] = out[2]

EquivalentWitness ==
    /\ Len(hist) = 2
    /\ hist[1].op = "from"
    /\ hist[1].args = <<>>
    /\ CallbackSupplied
    /\ out[1].calls = <<Null>>
    /\ out[2].calls = <<Null>>
====
